---- MODULE Spec2Model ----
(***************************************************************************)
(* Model of backend/services/repo_analyzer.py: the per-file analyzers, the *)
(* risk scorer RepoAnalyzer._calculate_risks and the orchestrator          *)
(* RepoAnalyzer.analyze_github_repo; and of CacheService of                *)
(* backend/services/performance_service.py.                                *)
(*                                                                         *)
(* A CodeSmell is the record [path, type, severity, line]; its message and *)
(* suggestion are fixed texts per rule and are not modelled.  A float      *)
(* ratio is kept in millionths (comment_ratio 0.02 is 20000).              *)
(***************************************************************************)
EXTENDS Integers, Sequences, FiniteSets, TLC

VARIABLES
    metrics,        \* _calculate_risks: the metrics argument (FileMetrics list)
    smells,         \* _calculate_risks: the smells argument (CodeSmell list)
    risks,          \* _calculate_risks: the returned RiskScore list
    spc,            \* position of the scorer's caller: "collect" | "scored" | "idle"
    tree,           \* the repository's file tree: relative path -> file content
    unreadable,     \* the paths whose read_text raises (vanished, no permission)
    pending,        \* invocations of analyze_github_repo still to be made
    files,          \* analyze_github_repo: what _find_files returned, in its order
    returned,       \* what the invocations made so far returned, in call order
    clones,         \* how git clone ended in each invocation, in call order
    temp_base,      \* tempfile.gettempdir(), as the parts of the path
    cache,          \* CacheService: self.cache, key -> entry
    ttl,            \* CacheService: self.ttl
    now,            \* datetime.utcnow(), in seconds
    ret,            \* CacheService: the last call and what it returned or raised
    last_set,       \* per key, the value and expiry of the set not yet removed
    invalidated,    \* the keys invalidate was called on since their last set
    ast,            \* the syntax tree a visitor walks: its nodes in document order
    walker,         \* the visitor: its fields and the calls of visit() under way
    temp_dir,       \* RepoAnalyzer: self.temp_dir of the singleton
    runs,           \* overlapping invocations: each one's position and locals
    disk            \* the temporary directories that exist

scoreVars == <<metrics, smells, risks, spc>>

repoVars == <<tree, unreadable, pending, files, returned, clones, temp_base>>

cacheVars == <<cache, ttl, now, ret, last_set, invalidated>>

astVars == <<ast, walker>>

runVars == <<temp_dir, runs, disk>>

vars ==
    << metrics, smells, risks, spc, tree, unreadable, pending, files, returned,
       clones, temp_base, cache, ttl, now, ret, last_set, invalidated,
       ast, walker, temp_dir, runs, disk >>

(***************************************************************************)
(* Bounds of the enumerated inputs.                                        *)
(***************************************************************************)
MaxFindings == 3    \* findings both scored files share
MaxExtra == 2       \* further critical findings of the second file
MaxLines == 2       \* lines written out in the file b.py
MaxCallbackLines == 9   \* lines of a .js file made of callbacks
MaxTtl == 2         \* longest time to live, in seconds
MaxClock == 3       \* seconds the clock runs for
MaxAstNodes == 2    \* nodes of a syntax tree below its root
MaxRuleLines == 4   \* lines of a text the pattern rules are run on
MaxOverlap == 2     \* invocations of analyze_github_repo that overlap

(***************************************************************************)
(* Helpers over sequences.                                                 *)
(***************************************************************************)
Range(seq) == {seq[i] : i \in 1..Len(seq)}

Min(a, b) == IF a <= b THEN a ELSE b

Max(a, b) == IF a >= b THEN a ELSE b

\* sum(1 for s in seq if P(s))
CountIf(seq, P(_)) == Cardinality({i \in 1..Len(seq) : P(seq[i])})

\* seq[:n]
Take(seq, n) == SubSeq(seq, 1, Min(n, Len(seq)))

(***************************************************************************)
(* Paths.  A path is its text; what the code reads off the text is        *)
(* tabulated here.                                                         *)
(***************************************************************************)
\* The paths of the model, in the order str compares them.
PathOrder == <<"a.py", "b.py", "c.js", "venv/d.py">>

PathRank(p) == CHOOSE i \in 1..Len(PathOrder) : PathOrder[i] = p

\* Path(p).parts
Parts(p) == IF p = "venv/d.py" THEN <<"venv", "d.py">> ELSE <<p>>

\* Path(p).suffix.lower()
Suffix(p) ==
    IF p \in {"c.js", "H.JS"} THEN ".js"
    ELSE IF p = "e.jsx" THEN ".jsx"
    ELSE IF p \in {"f.ts", "K.TS"} THEN ".ts"
    ELSE IF p = "g.tsx" THEN ".tsx"
    ELSE ".py"

\* p.endswith(ext), which compares the letters as they are
EndsWith(p, ext) ==
    \/ p = "c.js" /\ ext = ".js"
    \/ p = "e.jsx" /\ ext = ".jsx"
    \/ p = "f.ts" /\ ext = ".ts"
    \/ p = "g.tsx" /\ ext = ".tsx"
    \/ p \in {"a.py", "b.py", "venv/d.py"} /\ ext = ".py"

\* self.temp_dir.parts: tempfile.gettempdir() / "codesensex_<16 hex digits>"
TempDirParts == temp_base \o <<"codesensex_0123456789abcdef">>

\* tempfile.gettempdir() when TMPDIR is unset
DefaultTempBase == <<"/", "tmp">>

\* tempfile.gettempdir(): the default, and TMPDIR=/srv/build/tmp
TempBases == {DefaultTempBase, <<"/", "srv", "build", "tmp">>}

\* No repository is analysed.
RepoIdle ==
    /\ tree = <<>>
    /\ unreadable = {}
    /\ pending = 0
    /\ files = <<>>
    /\ returned = <<>>
    /\ clones = <<>>
    /\ temp_base = DefaultTempBase

\* No CacheService is in use.
CacheIdle ==
    /\ cache = <<>>
    /\ ttl = 0
    /\ now = 0
    /\ ret = [op |-> "none"]
    /\ last_set = <<>>
    /\ invalidated = {}

\* No visitor walks a syntax tree.
AstIdle ==
    /\ ast = <<>>
    /\ walker = [visitor |-> "none"]

\* No invocations overlap.
RunsIdle ==
    /\ temp_dir = "None"
    /\ runs = <<>>
    /\ disk = {}

\* No file is analysed or scored.
ScoreIdle ==
    /\ metrics = <<>>
    /\ smells = <<>>
    /\ risks = <<>>
    /\ spc = "idle"

(***************************************************************************)
(* The dataclasses.  cyclomatic_avg is kept in hundredths, comment_ratio   *)
(* in millionths; dup_ratio is always 0.0.                                 *)
(***************************************************************************)
FileMetrics(path, loc, sloc, cyclomatic_max, cyclomatic_avg, fn_count, class_count, nesting_max, comment_ratio, language) ==
    [ path |-> path, loc |-> loc, sloc |-> sloc,
      cyclomatic_max |-> cyclomatic_max, cyclomatic_avg |-> cyclomatic_avg,
      fn_count |-> fn_count, class_count |-> class_count,
      nesting_max |-> nesting_max, dup_ratio |-> 0,
      comment_ratio |-> comment_ratio, language |-> language ]

CodeSmell(path, type, severity, line) ==
    [path |-> path, type |-> type, severity |-> severity, line |-> line]

(***************************************************************************)
(* RepoAnalyzer._calculate_risks                                           *)
(***************************************************************************)
security_smells ==
    {"SQL Injection Risk", "Hardcoded Secret", "Database Credentials Exposed",
     "API Key Exposed", "AWS Credentials Exposed", "Private Key Exposed",
     "JWT Token Hardcoded", "Code Injection Risk", "XSS Vulnerability"}

high_risk_smells ==
    {"Callback Hell", "Empty Catch Block", "Potential Memory Leak",
     "High Complexity", "God Class", "N+1 Query Problem",
     "Blocking Call in Async", "Resource Leak Risk"}

\* Mutant: the smells are not grouped, every file is scored on all of them.
smells_by_file_Ungrouped(all, path) == all

\* smells_by_file.get(m.path, []): the smells of one path, in list order
smells_by_file(all, path) == SelectSeq(all, LAMBDA s : s.path = path)

critical_smells(file_smells) == SelectSeq(file_smells, LAMBDA s : s.severity >= 4)

security_count(file_smells) ==
    CountIf(critical_smells(file_smells), LAMBDA s : s.type \in security_smells)

\* Mutant: every critical smell counts, whatever its type.
high_risk_count_AnyType(file_smells) == Len(critical_smells(file_smells))

high_risk_count(file_smells) ==
    CountIf(critical_smells(file_smells), LAMBDA s : s.type \in high_risk_smells)

\* A feature tag; n is the count embedded in security_vulnerabilities_N, else 0.
Tag(name) == [name |-> name, n |-> 0]

\* Each band is [score, tags]: what it adds to score and to top_features.
NoBand == [score |-> 0, tags |-> <<>>]

Band(points, name) == [score |-> points, tags |-> <<Tag(name)>>]

\* Mutant: the top complexity band starts one higher.
ComplexityBand_StartsLate(m) ==
    IF m.cyclomatic_max > 26 THEN Band(25, "extreme_complexity")
    ELSE IF m.cyclomatic_max > 15 THEN Band(20, "high_complexity")
    ELSE IF m.cyclomatic_max > 10 THEN Band(12, "moderate_complexity")
    ELSE NoBand

ComplexityBand(m) ==
    IF m.cyclomatic_max > 25 THEN Band(25, "extreme_complexity")
    ELSE IF m.cyclomatic_max > 15 THEN Band(20, "high_complexity")
    ELSE IF m.cyclomatic_max > 10 THEN Band(12, "moderate_complexity")
    ELSE NoBand

\* Mutant: the security band weighs less than the top non-security band.
SecurityBand_Underweight(n) ==
    [score |-> 20, tags |-> <<[name |-> "security_vulnerabilities", n |-> n]>>]

SecurityBand(n) == [score |-> 30, tags |-> <<[name |-> "security_vulnerabilities", n |-> n]>>]

\* Mutant: the non-security critical band does not grow with the count.
CriticalBand_Flat(file_smells) ==
    IF security_count(file_smells) > 0 THEN SecurityBand(security_count(file_smells))
    ELSE IF high_risk_count(file_smells) >= 1 THEN Band(15, "has_critical_issue")
    ELSE NoBand

CriticalBand(file_smells) ==
    IF security_count(file_smells) > 0 THEN SecurityBand(security_count(file_smells))
    ELSE IF high_risk_count(file_smells) >= 3 THEN Band(25, "multiple_critical_issues")
    ELSE IF high_risk_count(file_smells) >= 2 THEN Band(20, "critical_issues")
    ELSE IF high_risk_count(file_smells) >= 1 THEN Band(15, "has_critical_issue")
    ELSE NoBand

NestingBand(m) ==
    IF m.nesting_max > 7 THEN Band(15, "deep_nesting")
    ELSE IF m.nesting_max > 5 THEN Band(10, "nesting_depth")
    ELSE IF m.nesting_max > 4 THEN [score |-> 5, tags |-> <<>>]
    ELSE NoBand

FunctionCountBand(m) ==
    IF m.fn_count > 30 THEN Band(10, "too_many_functions")
    ELSE IF m.fn_count > 20 THEN [score |-> 5, tags |-> <<>>]
    ELSE NoBand

DocumentationBand(m) ==
    IF m.sloc > 100 /\ m.comment_ratio < 20000 THEN Band(5, "poor_documentation")
    ELSE NoBand

MediumSmellBand(file_smells) ==
    LET medium_smells == CountIf(file_smells, LAMBDA s : s.severity = 3)
    IN  IF medium_smells >= 5 THEN [score |-> 10, tags |-> <<>>]
        ELSE IF medium_smells >= 3 THEN [score |-> 5, tags |-> <<>>]
        ELSE NoBand

FileSizeBand(m) ==
    IF m.loc > 800 THEN Band(10, "very_large_file")
    ELSE IF m.loc > 500 THEN [score |-> 5, tags |-> <<>>]
    ELSE NoBand

LowSmellBand(file_smells) ==
    LET low_smells == CountIf(file_smells, LAMBDA s : s.severity <= 2)
    IN  IF low_smells >= 8 THEN [score |-> 5, tags |-> <<>>] ELSE NoBand

DiversityBand(file_smells) ==
    LET smell_types == {s.type : s \in Range(file_smells)}
    IN  IF Cardinality(smell_types) >= 5 THEN Band(10, "multiple_issue_types")
        ELSE IF Cardinality(smell_types) >= 3 THEN [score |-> 5, tags |-> <<>>]
        ELSE NoBand

\* The bands in the order the scorer adds them.
Bands(m, file_smells) ==
    << ComplexityBand(m), CriticalBand(file_smells), NestingBand(m),
       FunctionCountBand(m), DocumentationBand(m), MediumSmellBand(file_smells),
       FileSizeBand(m), LowSmellBand(file_smells), DiversityBand(file_smells) >>

RECURSIVE SumScores(_)
SumScores(bands) ==
    IF bands = <<>> THEN 0 ELSE Head(bands).score + SumScores(Tail(bands))

\* Mutant: the tags are listed from the last band to the first.
RECURSIVE AllTags_Reversed(_)
AllTags_Reversed(bands) ==
    IF bands = <<>> THEN <<>> ELSE AllTags_Reversed(Tail(bands)) \o Head(bands).tags

RECURSIVE AllTags(_)
AllTags(bands) ==
    IF bands = <<>> THEN <<>> ELSE Head(bands).tags \o AllTags(Tail(bands))

\* score: the sum before clamping
RawScore(m, file_smells) == SumScores(Bands(m, file_smells))

\* Mutant: the Critical threshold is exclusive.
TierOf_Exclusive(score) ==
    IF score > 70 THEN "Critical"
    ELSE IF score >= 50 THEN "High"
    ELSE IF score >= 30 THEN "Medium"
    ELSE "Low"

\* The tier is decided on the score before min(score, 100).
TierOf(score) ==
    IF score >= 70 THEN "Critical"
    ELSE IF score >= 50 THEN "High"
    ELSE IF score >= 30 THEN "Medium"
    ELSE "Low"

\* Mutant: the sum is emitted without the clamp.
ClampScore_Unclamped(score) == score

ClampScore(score) == Min(score, 100)

RiskScoreOf(m, file_smells) ==
    [ path         |-> m.path,
      risk_score   |-> ClampScore(RawScore(m, file_smells)),
      tier         |-> TierOf(RawScore(m, file_smells)),
      top_features |-> Take(AllTags(Bands(m, file_smells)), 4) ]

\* risks.sort(key=lambda r: r.risk_score, reverse=True): a stable sort, so
\* entries of equal risk_score keep the order they were appended in.
RECURSIVE InsertByScore(_, _)
InsertByScore(sorted, r) ==
    IF sorted = <<>> THEN <<r>>
    ELSE IF Head(sorted).risk_score >= r.risk_score
         THEN <<Head(sorted)>> \o InsertByScore(Tail(sorted), r)
         ELSE <<r>> \o sorted

RECURSIVE SortByScoreDesc(_)
SortByScoreDesc(rs) ==
    IF rs = <<>> THEN <<>>
    ELSE InsertByScore(SortByScoreDesc(SubSeq(rs, 1, Len(rs) - 1)), rs[Len(rs)])

\* Mutant: only the files that have a smell are scored.
calculate_risks_SmellyOnly(ms, all) ==
    SortByScoreDesc(
        LET smelly == SelectSeq(ms, LAMBDA m : smells_by_file(all, m.path) # <<>>)
        IN  [i \in 1..Len(smelly) |-> RiskScoreOf(smelly[i], smells_by_file(all, smelly[i].path))])

calculate_risks(ms, all) ==
    SortByScoreDesc([i \in 1..Len(ms) |-> RiskScoreOf(ms[i], smells_by_file(all, ms[i].path))])

(***************************************************************************)
(* The scorer on enumerated inputs: two FileMetrics records that differ    *)
(* only in path, "a.py" and "b.py"; every finding of a.py is also a        *)
(* finding of b.py, and b.py has up to MaxExtra further critical findings. *)
(***************************************************************************)
CyclomaticValues == {1, 16, 26}
NestingValues == {0, 8}
FnCountValues == {0, 31}
LocValues == {1, 801}
\* <<sloc, comment_ratio>>
DocValues == {<<50, 0>>, <<101, 10000>>}

\* Finding kinds in rule-catalogue order.  The scorer reads a file's list
\* only through counts and sets, so each multiset is enumerated once.
FindingCatalogue ==
    << [type |-> "Hardcoded Secret", severity |-> 5],
       [type |-> "N+1 Query Problem", severity |-> 4],
       [type |-> "Bare Except Clause", severity |-> 4],
       [type |-> "Deep Nesting", severity |-> 3],
       [type |-> "Long Function", severity |-> 2] >>

Finding(path, k) ==
    CodeSmell(path, FindingCatalogue[k].type, FindingCatalogue[k].severity, 1)

KindOf(s) ==
    CHOOSE k \in 1..Len(FindingCatalogue) :
        FindingCatalogue[k].type = s.type /\ FindingCatalogue[k].severity = s.severity

SharedFindings == smells_by_file(smells, "a.py")

\* b.py's findings that a.py does not have
ExtraFindings ==
    SubSeq(smells_by_file(smells, "b.py"), Len(SharedFindings) + 1,
           Len(smells_by_file(smells, "b.py")))

InputMetrics(path, c, n, f, l, d) ==
    FileMetrics(path, l, d[1], c, 100 * c, f, 0, n, d[2], "python")

InitScore ==
    /\ \E c \in CyclomaticValues, n \in NestingValues, f \in FnCountValues,
          l \in LocValues, d \in DocValues :
          metrics = << InputMetrics("a.py", c, n, f, l, d),
                       InputMetrics("b.py", c, n, f, l, d) >>
    /\ smells = <<>>
    /\ risks = <<>>
    /\ spc = "collect"
    /\ RepoIdle
    /\ CacheIdle
    /\ AstIdle
    /\ RunsIdle

\* One more finding reported for both files.
AddFinding(k) ==
    /\ spc = "collect"
    /\ ExtraFindings = <<>>
    /\ Len(SharedFindings) < MaxFindings
    /\ SharedFindings # <<>> => KindOf(SharedFindings[Len(SharedFindings)]) <= k
    /\ smells' = smells \o <<Finding("a.py", k), Finding("b.py", k)>>
    /\ UNCHANGED <<metrics, risks, spc, repoVars, cacheVars, astVars, runVars>>

\* One more critical finding reported for b.py only.
AddExtraFinding(k) ==
    /\ spc = "collect"
    /\ FindingCatalogue[k].severity >= 4
    /\ Len(ExtraFindings) < MaxExtra
    /\ ExtraFindings # <<>> => KindOf(ExtraFindings[Len(ExtraFindings)]) <= k
    /\ smells' = Append(smells, Finding("b.py", k))
    /\ UNCHANGED <<metrics, risks, spc, repoVars, cacheVars, astVars, runVars>>

\* risks = self._calculate_risks(metrics, smells)
CalculateRisks ==
    /\ spc = "collect"
    /\ risks' = calculate_risks(metrics, smells)
    /\ spc' = "scored"
    /\ UNCHANGED <<metrics, smells, repoVars, cacheVars, astVars, runVars>>

NextScore ==
    \/ \E k \in 1..Len(FindingCatalogue) : AddFinding(k)
    \/ \E k \in 1..Len(FindingCatalogue) : AddExtraFinding(k)
    \/ CalculateRisks

SpecScore == InitScore /\ [][NextScore]_vars

(***************************************************************************)
(* The scorer on one file whose metrics stand on either side of each band  *)
(* threshold and whose findings are counted per kind of FindingCatalogue.  *)
(***************************************************************************)
CyclomaticThresholds == {10, 11, 15, 16, 25, 26}
NestingThresholds == {4, 5, 6, 7, 8}
FnCountThresholds == {20, 21, 30, 31}
LocThresholds == {500, 501, 800, 801}
\* <<sloc, comment_ratio>>
DocThresholds == {<<100, 0>>, <<101, 19999>>, <<101, 20000>>}

\* <<cyclomatic_max, nesting_max, fn_count, loc, <<sloc, comment_ratio>>>>:
\* every combination of a low and a high value, and each threshold value
\* with the other metrics low.
BandMetrics ==
    (CyclomaticValues \X NestingValues \X FnCountValues \X LocValues \X DocValues)
    \cup (CyclomaticThresholds \X {0} \X {0} \X {1} \X {<<50, 0>>})
    \cup ({1} \X NestingThresholds \X {0} \X {1} \X {<<50, 0>>})
    \cup ({1} \X {0} \X FnCountThresholds \X {1} \X {<<50, 0>>})
    \cup ({1} \X {0} \X {0} \X LocThresholds \X {<<50, 0>>})
    \cup ({1} \X {0} \X {0} \X {1} \X DocThresholds)

\* How many findings of each kind of FindingCatalogue the file has.
FindingCounts == {0, 1, 2} \X {0, 1, 2, 3} \X {0, 1} \X {0, 2, 3, 5} \X {0, 7, 8}

Repeat(x, n) == [i \in 1..n |-> x]

RECURSIVE FindingsOf(_, _, _)
FindingsOf(path, counts, k) ==
    IF k > Len(counts) THEN <<>>
    ELSE Repeat(Finding(path, k), counts[k]) \o FindingsOf(path, counts, k + 1)

InitBands ==
    /\ \E v \in BandMetrics : metrics = <<InputMetrics("a.py", v[1], v[2], v[3], v[4], v[5])>>
    /\ \E counts \in FindingCounts : smells = FindingsOf("a.py", counts, 1)
    /\ risks = <<>>
    /\ spc = "collect"
    /\ RepoIdle
    /\ CacheIdle
    /\ AstIdle
    /\ RunsIdle

NextBands == CalculateRisks

SpecBands == InitBands /\ [][NextBands]_vars

(***************************************************************************)
(* File contents.  A text is kept as the list content.split('\n') returns, *)
(* a non-empty list of lines: [lines, pad] is the text whose first lines   *)
(* are `lines`, followed by `pad` further lines "x = 1".                   *)
(*                                                                         *)
(* Lines of a .py file:                                                    *)
(*   "code"     x = 1                                                      *)
(*   "comment"  # note                                                     *)
(*   "secret"   password = "supersecret123"                                *)
(*   "def"      def f(): pass                                              *)
(*   "bad"      def f(:                       (not Python syntax)          *)
(*   "eval"     eval(x)                                                    *)
(*   "for"      for o in objs:                                             *)
(*   "query"        o.rel.filter()            (indented)                   *)
(*   "global"   global x                                                   *)
(* Lines of a .js file:                                                    *)
(*   "code"     x = 1;                                                     *)
(*   "comment"  // note                                                    *)
(*   "if"       if (x) { y(); }                                            *)
(*   "function" function f() {}                                            *)
(*   "open"     foo(function() {          (a callback is opened)           *)
(*   "close"    });                       (a callback is closed)           *)
(*   "innerHTML" el.innerHTML = x;                                         *)
(*   "anys"     let a: any, b: any, c: any, d: any, e: any, g: any;        *)
(***************************************************************************)
PyLineKinds == {"code", "comment", "secret", "def", "bad"}

JsLineKinds == {"code", "comment", "if", "function", "open", "close"}

CallbackLineKinds == {"open", "close"}

\* The lines the pattern rules are run on.
PyRuleKinds == {"code", "secret", "eval", "for", "query", "global"}

JsRuleKinds == {"code", "innerHTML", "anys"}

\* len(line)
LineLength(kind) ==
    IF kind = "code" THEN 5 ELSE IF kind = "comment" THEN 6
    ELSE IF kind = "secret" THEN 27 ELSE IF kind = "def" THEN 13
    ELSE IF kind = "bad" THEN 7 ELSE IF kind = "eval" THEN 7
    ELSE IF kind = "for" THEN 14 ELSE IF kind = "query" THEN 18
    ELSE 8

\* content[:n].count('\n') = i - 1 at the first character of line i: the
\* number of characters before line i
RECURSIVE OffsetOfLine(_, _)
OffsetOfLine(lines, i) ==
    IF i <= 1 THEN 0 ELSE OffsetOfLine(lines, i - 1) + LineLength(lines[i - 1]) + 1

\* skip_security = loc > 5000
SecurityScanLimit == 5000

\* Lengths of the tail of "x = 1" lines: none, or enough to reach the limit.
PadValues == {0, SecurityScanLimit - 1}

Content(lines, pad) == [lines |-> lines, pad |-> pad]

NoFile == Content(<<>>, 0)

LinesUpTo(n) == UNION {[1..k -> PyLineKinds] : k \in 1..n}

\* loc = len(lines)
LocOf(c) == Len(c.lines) + c.pad

FirstIndex(lines, kind) ==
    IF \E i \in 1..Len(lines) : lines[i] = kind
    THEN CHOOSE i \in 1..Len(lines) : lines[i] = kind /\ \A j \in 1..(i - 1) : lines[j] # kind
    ELSE 0

\* round(x, 3) of the ratio num / den, in millionths
Round3(num, den) == ((2000 * num + den) \div (2 * den)) * 1000

(***************************************************************************)
(* Syntax trees and the two ast.NodeVisitor classes.  A tree is the list   *)
(* of its nodes in document order, each with the index of its parent; the  *)
(* root is node 1.  The nodes kept are those of the classes a visitor has  *)
(* a method for, and a few it has none for (AsyncFor, Pass, Module); the   *)
(* nodes between them (Assign, ListComp, Name, ...) are passed through by  *)
(* generic_visit and left out.  An If written with elif is the If that is  *)
(* the orelse of its parent If.                                            *)
(***************************************************************************)
NodeType(kind, values, elif) == [kind |-> kind, values |-> values, elif |-> elif]

StatementTypes ==
    {NodeType(k, 0, FALSE) :
        k \in {"If", "For", "While", "With", "Try", "Assert", "FunctionDef",
               "AsyncFunctionDef", "AsyncFor", "Pass"}}

\* A BoolOp carries len(node.values).
ExpressionTypes ==
    {NodeType("comprehension", 0, FALSE), NodeType("IfExp", 0, FALSE),
     NodeType("BoolOp", 2, FALSE), NodeType("BoolOp", 3, FALSE)}

RootTypes == {NodeType("Module", 0, FALSE), NodeType("FunctionDef", 0, FALSE)}

\* The node types that may stand directly under a node.
ChildTypes(parent) ==
    IF parent.kind = "Pass" THEN {}
    ELSE IF parent.kind \in {"comprehension", "IfExp", "BoolOp", "Assert"} THEN ExpressionTypes
    ELSE StatementTypes \cup ExpressionTypes
            \cup (IF parent.kind = "If" THEN {NodeType("If", 0, TRUE)} ELSE {})
            \cup (IF parent.kind = "Try" THEN {NodeType("ExceptHandler", 0, FALSE)} ELSE {})

AstNode(type, parent) ==
    [kind |-> type.kind, values |-> type.values, elif |-> type.elif, parent |-> parent]

\* Node i and the nodes above it.
RECURSIVE AncestorsOrSelf(_, _)
AncestorsOrSelf(t, i) == IF i = 0 THEN {} ELSE {i} \cup AncestorsOrSelf(t, t[i].parent)

\* The nodes a further node can be put under: those on the path to the
\* last node that have no elif below them yet (the orelse comes last).
OpenParents(t) ==
    {p \in AncestorsOrSelf(t, Len(t)) : ~\E c \in 1..Len(t) : t[c].parent = p /\ t[c].elif}

Extensions(t) ==
    UNION {{Append(t, AstNode(type, p)) : type \in ChildTypes(t[p])} : p \in OpenParents(t)}

\* The trees of n nodes.
RECURSIVE AstsOfSize(_)
AstsOfSize(n) ==
    IF n = 1 THEN {<<AstNode(type, 0)>> : type \in RootTypes}
    ELSE UNION {Extensions(t) : t \in AstsOfSize(n - 1)}

\* The trees of a root and up to n nodes below it.
AstsUpTo(n) == UNION {AstsOfSize(k) : k \in 1..(n + 1)}

\* The ComplexityIncrement of a visitor that adds one per operand of a chain.
ComplexityIncrement_PerOperand(node) ==
    IF node.kind \in {"If", "For", "While", "ExceptHandler", "With", "Assert",
                      "comprehension", "IfExp"} THEN 1
    ELSE IF node.kind = "BoolOp" THEN node.values
    ELSE 0

\* CyclomaticComplexityVisitor.visit_<kind>: what the method adds to
\* self.complexity; a kind without a method adds nothing.
ComplexityIncrement(node) ==
    IF node.kind \in {"If", "For", "While", "ExceptHandler", "With", "Assert",
                      "comprehension", "IfExp"} THEN 1
    ELSE IF node.kind = "BoolOp" THEN node.values - 1
    ELSE 0

\* The kinds NestingVisitor has a visit_<kind> method for.
NestingTracked(kind) ==
    kind \in {"If", "For", "While", "With", "Try", "FunctionDef", "AsyncFunctionDef"}

\* NestingVisitor._enter_block
enter_block(w) ==
    [w EXCEPT !.current_depth = @ + 1, !.max_depth = Max(@, w.current_depth + 1)]

\* The _exit_block of a visitor that leaves the counter as it is.
exit_block_Keep(w) == [w EXCEPT !.current_depth = @]

\* NestingVisitor._exit_block
exit_block(w) == [w EXCEPT !.current_depth = @ - 1]

\* CyclomaticComplexityVisitor() and NestingVisitor(), before visit(root)
NewVisitor(visitor) ==
    [ visitor |-> visitor, stack |-> <<>>, next |-> 1, visited |-> <<>>,
      complexity |-> 1, current_depth |-> 0, max_depth |-> 0 ]

Top(stack) == stack[Len(stack)]

\* visit(node) is called: the visit_<kind> method runs up to generic_visit.
VisitNode ==
    /\ walker.visitor # "none"
    /\ walker.next <= Len(ast)
    /\ IF walker.stack = <<>> THEN walker.visited = <<>>
       ELSE ast[walker.next].parent = Top(walker.stack)
    /\ LET node == walker.next
           called == [walker EXCEPT !.stack = Append(@, node),
                                    !.visited = Append(@, node),
                                    !.next = @ + 1]
       IN  walker' =
             IF walker.visitor = "complexity"
             THEN [called EXCEPT !.complexity = @ + ComplexityIncrement(ast[node])]
             ELSE IF NestingTracked(ast[node].kind) THEN enter_block(called)
             ELSE called
    /\ UNCHANGED <<ast, scoreVars, repoVars, cacheVars, runVars>>

\* generic_visit(node) has no child left: the method runs to its end.
ReturnFromNode ==
    /\ walker.visitor # "none"
    /\ walker.stack # <<>>
    /\ IF walker.next > Len(ast) THEN TRUE
       ELSE ast[walker.next].parent # Top(walker.stack)
    /\ LET node == Top(walker.stack)
           returned_to == [walker EXCEPT !.stack = SubSeq(@, 1, Len(@) - 1)]
       IN  walker' =
             IF walker.visitor = "nesting" /\ NestingTracked(ast[node].kind)
             THEN exit_block(returned_to)
             ELSE returned_to
    /\ UNCHANGED <<ast, scoreVars, repoVars, cacheVars, runVars>>

\* analyze_file walks each function with a CyclomaticComplexityVisitor and
\* the module with a NestingVisitor.
InitAst ==
    /\ ast \in AstsUpTo(MaxAstNodes)
    /\ walker = NewVisitor(IF ast[1].kind = "Module" THEN "nesting" ELSE "complexity")
    /\ ScoreIdle
    /\ RepoIdle
    /\ CacheIdle
    /\ RunsIdle

NextAst == VisitNode \/ ReturnFromNode

SpecAst == InitAst /\ [][NextAst]_vars

(***************************************************************************)
(* PythonAnalyzer                                                          *)
(***************************************************************************)
\* What analyze_file hands back: Optional[FileMetrics] as a list of at most
\* one record, the smells, and whether an exception left the method.
Analysed(m, found) == [metrics |-> <<m>>, smells |-> found, raised |-> FALSE]

NotAnalysed == [metrics |-> <<>>, smells |-> <<>>, raised |-> FALSE]

Raised == [metrics |-> <<>>, smells |-> <<>>, raised |-> TRUE]

\* sum(1 for line in lines if line.strip() and not line.strip().startswith('#'))
\* (no line of the model is empty)
PySloc(c) == CountIf(c.lines, LAMBDA k : k # "comment") + c.pad

PyCommentLines(c) == CountIf(c.lines, LAMBDA k : k = "comment")

\* ast.parse(content) raises SyntaxError: a line that is not Python, a
\* loop without an indented body, or an indented line that is not the body
\* of a loop (comments do not count).
PySyntaxError(c) ==
    \/ \E i \in 1..Len(c.lines) : c.lines[i] = "bad"
    \/ /\ \E i \in 1..Len(c.lines) : c.lines[i] \in {"for", "query"}
       /\ LET stmts == SelectSeq(c.lines, LAMBDA k : k # "comment")
          IN  \E i \in 1..Len(stmts) :
                \/ stmts[i] = "for" /\ (i = Len(stmts) \/ stmts[i + 1] # "query")
                \/ stmts[i] = "query" /\ (i = 1 \/ stmts[i - 1] \notin {"for", "query"})

\* [node for node in ast.walk(tree) if isinstance(node, FunctionDef)]
PyFunctions(c) == {i \in 1..Len(c.lines) : c.lines[i] = "def"}

\* Mutant: the pattern is matched at the start of the text only.
PyHardcodedSecret_MatchAtStart(c, path) ==
    IF c.lines[1] = "secret"
    THEN <<CodeSmell(path, "Hardcoded Secret", 5, 1)>>
    ELSE <<>>

\* for pattern in _COMPILED_PATTERNS['hardcoded_secrets']: the first match
PyHardcodedSecret(c, path) ==
    IF FirstIndex(c.lines, "secret") > 0
    THEN <<CodeSmell(path, "Hardcoded Secret", 5, FirstIndex(c.lines, "secret"))>>
    ELSE <<>>

\* for pattern in _COMPILED_PATTERNS['command_injection']: the first match
PyCodeInjection(c, path) ==
    IF FirstIndex(c.lines, "eval") > 0
    THEN <<CodeSmell(path, "Code Injection Risk", 5, FirstIndex(c.lines, "eval"))>>
    ELSE <<>>

\* Mutant: the loop over the matches stops at the first.
PyNPlusOne_First(lines, path, n) ==
    IF \E i \in 1..(Len(lines) - 1) : lines[i] = "for" /\ lines[i + 1] = "query"
    THEN <<CodeSmell(path, "N+1 Query Problem", 4, FirstIndex(lines, "for"))>>
    ELSE <<>>

\* for match in re.finditer(n_plus_one_pattern, content): a match is a loop
\* header and the line after it; the matches among the first n lines
RECURSIVE PyNPlusOne(_, _, _)
PyNPlusOne(lines, path, n) ==
    IF n < 2 THEN <<>>
    ELSE IF lines[n - 1] = "for" /\ lines[n] = "query"
         THEN Append(PyNPlusOne(lines, path, n - 2), CodeSmell(path, "N+1 Query Problem", 4, n - 1))
         ELSE PyNPlusOne(lines, path, n - 1)

\* global_matches = list(re.finditer(r'^\s*global\s+\w+', content, re.MULTILINE));
\* line=global_matches[0].start()
PyGlobalState(c, path) ==
    IF FirstIndex(c.lines, "global") > 0 /\ CountIf(c.lines, LAMBDA k : k = "global") > 2
    THEN <<CodeSmell(path, "Excessive Global State", 3,
                     OffsetOfLine(c.lines, FirstIndex(c.lines, "global")))>>
    ELSE <<>>

\* PythonAnalyzer._detect_smells; of its rules these match a line of the
\* model.
PyDetectSmells(c, path) ==
    LET skip_security == LocOf(c) > SecurityScanLimit
    IN  (IF skip_security THEN <<>> ELSE PyHardcodedSecret(c, path))
            \o PyCodeInjection(c, path)
            \o PyNPlusOne(c.lines, path, Len(c.lines))
            \o PyGlobalState(c, path)

\* Mutant: a file that does not parse is dropped like one that cannot be read.
PySyntaxErrorResult_Dropped(c, relative_path) == NotAnalysed

\* except SyntaxError: return FileMetrics(..., cyclomatic_max=1, ...), []
PySyntaxErrorResult(c, relative_path) ==
    Analysed(FileMetrics(relative_path, LocOf(c), PySloc(c), 1, 100, 0, 0, 0,
                         (1000000 * PyCommentLines(c)) \div Max(LocOf(c), 1), "python"),
             <<>>)

PyParsedResult(c, relative_path) ==
    LET functions == PyFunctions(c)
        \* every "def f(): pass" has complexity 1; it and a loop open one block
        cyclomatic_max == 1
        cyclomatic_avg == 100
        nesting_max == IF \E i \in 1..Len(c.lines) : c.lines[i] \in {"def", "for"}
                       THEN 1 ELSE 0
    IN  Analysed(FileMetrics(relative_path, LocOf(c), PySloc(c), cyclomatic_max,
                             cyclomatic_avg, Cardinality(functions), 0, nesting_max,
                             Round3(PyCommentLines(c), Max(LocOf(c), 1)), "python"),
                 PyDetectSmells(c, relative_path))

\* Mutant: no handler around the body, the exception leaves analyze_file.
PythonAnalyzer_analyze_file_Unguarded(file_path, relative_path) ==
    IF file_path \in unreadable THEN Raised
    ELSE IF PySyntaxError(tree[file_path])
         THEN PySyntaxErrorResult(tree[file_path], relative_path)
         ELSE PyParsedResult(tree[file_path], relative_path)

PythonAnalyzer_analyze_file(file_path, relative_path) ==
    IF file_path \in unreadable THEN NotAnalysed
    ELSE IF PySyntaxError(tree[file_path])
         THEN PySyntaxErrorResult(tree[file_path], relative_path)
         ELSE PyParsedResult(tree[file_path], relative_path)

(***************************************************************************)
(* JavaScriptAnalyzer                                                      *)
(***************************************************************************)
JsSloc(c) == CountIf(c.lines, LAMBDA k : k # "comment") + c.pad

JsCommentLines(c) == CountIf(c.lines, LAMBDA k : k = "comment")

\* "if (x) { y(); }" is the one line that holds a decision keyword.
JsIfLines(c) == CountIf(c.lines, LAMBDA k : k = "if")

\* sum(len(re.findall(p, content)) for p in fn_patterns[:3]): fn_patterns[2]
\* matches "if (x) {", "f() {" and "foo(function() {", and fn_patterns[0]
\* matches "function f" as well.
JsFnCount(c) ==
    JsIfLines(c) + 2 * CountIf(c.lines, LAMBDA k : k = "function")
                 + CountIf(c.lines, LAMBDA k : k = "open")

\* current_depth after the first n lines: '{' adds one, '}' takes one off
RECURSIVE JsCurrentDepth(_, _)
JsCurrentDepth(lines, n) ==
    IF n = 0 THEN 0
    ELSE IF lines[n] = "open" THEN JsCurrentDepth(lines, n - 1) + 1
    ELSE IF lines[n] = "close" THEN Max(0, JsCurrentDepth(lines, n - 1) - 1)
    ELSE JsCurrentDepth(lines, n - 1)

\* max_depth: a line with '{' reaches one more than the depth before it
JsMaxDepth(lines) ==
    LET reached == {JsCurrentDepth(lines, n - 1) + 1 :
                        n \in {i \in 1..Len(lines) : lines[i] \in {"if", "function", "open"}}}
    IN  IF reached = {} THEN 0 ELSE CHOOSE d \in reached : \A e \in reached : e <= d

\* len(re.findall(r'function\s*\([^)]*\)\s*{|=>\s*{|...', line))
callback_starts(line) == IF line = "open" THEN 1 ELSE 0

\* line.count('});') + line.count('})'): the text "});" holds both
callback_ends(line) == IF line = "close" THEN 2 ELSE 0

\* current_callback_depth after the first n lines
RECURSIVE current_callback_depth(_, _)
current_callback_depth(lines, n) ==
    IF n = 0 THEN 0
    ELSE Max(0, current_callback_depth(lines, n - 1) + callback_starts(lines[n])
                    - callback_ends(lines[n]))

max_callback_depth(lines) ==
    LET reached == {current_callback_depth(lines, n) : n \in 0..Len(lines)}
    IN  CHOOSE d \in reached : \A e \in reached : e <= d

\* The lines of the given kind, in order.
IndicesOf(lines, kind) == SelectSeq([i \in 1..Len(lines) |-> i], LAMBDA i : lines[i] = kind)

\* for match in matches[:2]: of xss_patterns only r'\.innerHTML\s*=' matches
JsXss(c, path) ==
    LET matches == IndicesOf(c.lines, "innerHTML")
    IN  [k \in 1..Min(2, Len(matches)) |-> CodeSmell(path, "XSS Vulnerability", 5, matches[k])]

JsCallbackHell(c, path) ==
    IF max_callback_depth(c.lines) >= 4
    THEN <<CodeSmell(path, "Callback Hell", 4, 1)>>
    ELSE <<>>

\* if path.endswith('.ts') or path.endswith('.tsx'): any_count > 5
JsAnyTypes(c, path) ==
    LET any_count == 6 * CountIf(c.lines, LAMBDA k : k = "anys")
    IN  IF (EndsWith(path, ".ts") \/ EndsWith(path, ".tsx")) /\ any_count > 5
        THEN <<CodeSmell(path, "Excessive Any Types", 4, 1)>>
        ELSE <<>>

\* JavaScriptAnalyzer._detect_smells; of its rules these match a line of
\* the model.
JsDetectSmells(c, path) ==
    JsXss(c, path) \o JsCallbackHell(c, path) \o JsAnyTypes(c, path)

\* cyclomatic_avg is kept in hundredths, rounded down.
JavaScriptAnalyzer_analyze_file(file_path, relative_path) ==
    IF file_path \in unreadable THEN NotAnalysed
    ELSE LET c == tree[file_path]
             fn_count == JsFnCount(c)
             complexity == 1 + JsIfLines(c)
             max_depth == JsMaxDepth(c.lines)
         IN  Analysed(FileMetrics(relative_path, LocOf(c), JsSloc(c),
                                  Min(complexity, 50),
                                  Min((100 * complexity) \div Max(fn_count, 1), 2000),
                                  fn_count, 0, max_depth,
                                  Round3(JsCommentLines(c), Max(LocOf(c), 1)),
                                  IF EndsWith(relative_path, ".js")
                                  THEN "javascript" ELSE "typescript"),
                      JsDetectSmells(c, relative_path))

(***************************************************************************)
(* RepoAnalyzer                                                            *)
(***************************************************************************)
SUPPORTED_EXTENSIONS ==
    [ext \in {".py", ".js", ".jsx", ".ts", ".tsx"} |->
        IF ext = ".py" THEN "PythonAnalyzer" ELSE "JavaScriptAnalyzer"]

IGNORED_DIRS ==
    {"node_modules", ".git", "__pycache__", ".venv", "venv", "env", ".env",
     "dist", "build", ".next", "coverage", ".pytest_cache", ".mypy_cache",
     "eggs", "*.egg-info"}

\* file_path.parts of a file of the clone
AbsoluteParts(p) == TempDirParts \o Parts(p)

\* _find_files over the entries in the order rglob('*') yields them
find_files(walk) ==
    SelectSeq(walk, LAMBDA p :
        /\ ~(\E ignored \in IGNORED_DIRS : ignored \in Range(AbsoluteParts(p)))
        /\ Suffix(p) \in DOMAIN SUPPORTED_EXTENSIONS)

analyze_file(file_path, relative_path) ==
    IF SUPPORTED_EXTENSIONS[Suffix(file_path)] = "PythonAnalyzer"
    THEN PythonAnalyzer_analyze_file(file_path, relative_path)
    ELSE JavaScriptAnalyzer_analyze_file(file_path, relative_path)

\* The loop over self._find_files(): [all_metrics, all_smells, raised]
RECURSIVE AnalyzeFiles(_)
AnalyzeFiles(found) ==
    IF found = <<>> THEN [all_metrics |-> <<>>, all_smells |-> <<>>, raised |-> FALSE]
    ELSE LET before == AnalyzeFiles(SubSeq(found, 1, Len(found) - 1))
             file_path == found[Len(found)]
             r == analyze_file(file_path, file_path)
         IN  IF before.raised \/ r.raised
             THEN [all_metrics |-> <<>>, all_smells |-> <<>>, raised |-> TRUE]
             ELSE [ all_metrics |-> before.all_metrics \o r.metrics,
                    all_smells |-> before.all_smells \o r.smells,
                    raised |-> FALSE ]

RECURSIVE SumLoc(_)
SumLoc(ms) == IF ms = <<>> THEN 0 ELSE Head(ms).loc + SumLoc(Tail(ms))

LanguagesOf(ms) == {m.language : m \in Range(ms)}

Orderings(S) ==
    {f \in [1..Cardinality(S) -> S] : \A i, j \in 1..Cardinality(S) : f[i] = f[j] => i = j}

\* How subprocess.run(['git', 'clone', ...], timeout=120) ends: exit status
\* 0, another exit status, or one of the exceptions it raises.
CloneOutcomes == {"cloned", "nonzero_exit", "TimeoutExpired", "FileNotFoundError", "Exception"}

\* Mutant: only the two named exceptions are handled.
clone_repo_NamedOnly(outcome) ==
    IF outcome = "Exception" THEN [value |-> FALSE, raised |-> TRUE]
    ELSE [value |-> outcome = "cloned", raised |-> FALSE]

\* _clone_repo: returncode == 0, and False from each except clause
clone_repo(outcome) == [value |-> outcome = "cloned", raised |-> FALSE]

CloneFailed ==
    [error |-> "Failed to clone repository", metrics |-> <<>>, risks |-> <<>>, smells |-> <<>>]

\* What the call hands to its caller: the dict, or the exception that left it.
Outcome(acc, languages) ==
    IF acc.raised THEN [exception |-> TRUE]
    ELSE [ metrics |-> acc.all_metrics,
           risks   |-> calculate_risks(acc.all_metrics, acc.all_smells),
           smells  |-> acc.all_smells,
           summary |-> [ total_files  |-> Len(acc.all_metrics),
                         total_loc    |-> SumLoc(acc.all_metrics),
                         total_smells |-> Len(acc.all_smells),
                         languages    |-> languages ] ]

\* One invocation of analyze_github_repo, clone to cleanup.  rglob yields
\* the entries in an order the file system chooses, and list(set(...))
\* yields the languages in an order the string hashes choose.
analyze_github_repo ==
    /\ pending > 0
    /\ pending' = pending - 1
    /\ \E outcome \in CloneOutcomes :
          /\ clones' = Append(clones, outcome)
          /\ LET clone_success == clone_repo(outcome)
             IN  IF clone_success.raised
                 THEN /\ files' = <<>>
                      /\ returned' = Append(returned, [exception |-> TRUE])
                 ELSE IF ~clone_success.value
                 THEN /\ files' = <<>>
                      /\ returned' = Append(returned, CloneFailed)
                 ELSE \E walk \in Orderings(DOMAIN tree) :
                         LET acc == AnalyzeFiles(find_files(walk))
                         IN  /\ files' = find_files(walk)
                             /\ \E languages \in Orderings(LanguagesOf(acc.all_metrics)) :
                                   returned' = Append(returned, Outcome(acc, languages))
    /\ UNCHANGED <<scoreVars, cacheVars, astVars, runVars, tree, unreadable, temp_base>>

(***************************************************************************)
(* The repositories analysed: a.py, c.js and venv/d.py are fixed files     *)
(* that may be present, b.py is any text of up to MaxLines lines and a     *)
(* tail.                                                                   *)
(***************************************************************************)
TreeOf(a, b, c, d) ==
    LET all == [p \in {"a.py", "b.py", "c.js", "venv/d.py"} |->
                    IF p = "a.py" THEN a ELSE IF p = "b.py" THEN b
                    ELSE IF p = "c.js" THEN c ELSE d]
    IN  [p \in {q \in DOMAIN all : all[q] # NoFile} |-> all[p]]

Trees ==
    { TreeOf(a, b, c, d) :
        a \in {NoFile, Content(<<"code">>, 0)},
        b \in {NoFile} \cup {Content(l, n) : l \in LinesUpTo(MaxLines), n \in PadValues},
        c \in {NoFile, Content(<<"if", "comment">>, 0)},
        d \in {NoFile, Content(<<"secret">>, 0)} }

InitRepo(trees, calls, bases) ==
    /\ temp_base \in bases
    /\ tree \in trees
    /\ unreadable \in SUBSET {p \in DOMAIN tree : find_files(<<p>>) # <<>>}
    /\ pending = calls
    /\ files = <<>>
    /\ returned = <<>>
    /\ clones = <<>>
    /\ ScoreIdle
    /\ CacheIdle
    /\ AstIdle
    /\ RunsIdle

Init == InitRepo(Trees, 1, {DefaultTempBase})

Next == analyze_github_repo

Spec == Init /\ [][Next]_vars

\* Two invocations on one unchanged tree, every file readable.
TreesTwice ==
    { TreeOf(Content(<<"code">>, 0), b, Content(<<"if", "comment">>, 0), NoFile) :
        b \in {NoFile, Content(<<"code">>, 0), Content(<<"secret">>, 0)} }

InitTwice == InitRepo(TreesTwice, 2, {DefaultTempBase}) /\ unreadable = {}

SpecTwice == InitTwice /\ [][Next]_vars

\* One invocation, the temporary directory standing in either place.
TreesRoot ==
    { TreeOf(a, b, c, d) :
        a \in {NoFile, Content(<<"code">>, 0)},
        b \in {NoFile, Content(<<"code">>, 0), Content(<<"secret">>, 0)},
        c \in {NoFile, Content(<<"if", "comment">>, 0)},
        d \in {NoFile, Content(<<"secret">>, 0)} }

InitRoot == InitRepo(TreesRoot, 1, TempBases)

SpecRoot == InitRoot /\ [][Next]_vars

(***************************************************************************)
(* One analyzer on one file: b.py is any text of up to MaxLines lines and  *)
(* a tail, c.js any text of up to MaxLines lines or any text of up to      *)
(* MaxCallbackLines lines that open and close callbacks.                   *)
(***************************************************************************)
JsLinesUpTo(n) == UNION {[1..k -> JsLineKinds] : k \in 1..n}

CallbackLinesUpTo(n) == UNION {[1..k -> CallbackLineKinds] : k \in 1..n}

FileTrees ==
    {TreeOf(NoFile, Content(l, n), NoFile, NoFile) :
        l \in LinesUpTo(MaxLines), n \in PadValues}
    \cup {TreeOf(NoFile, NoFile, Content(l, 0), NoFile) :
            l \in JsLinesUpTo(MaxLines) \cup CallbackLinesUpTo(MaxCallbackLines)}

InitFile ==
    /\ tree \in FileTrees
    /\ unreadable \in SUBSET DOMAIN tree
    /\ pending = 0
    /\ files = <<>>
    /\ returned = <<>>
    /\ clones = <<>>
    /\ temp_base = DefaultTempBase
    /\ metrics = <<>>
    /\ smells = <<>>
    /\ risks = <<>>
    /\ spc = "file"
    /\ CacheIdle
    /\ AstIdle
    /\ RunsIdle

\* metrics, smells = analyzer.analyze_file(file_path, relative_path)
AnalyzeFile(file_path) ==
    /\ spc = "file"
    /\ LET r == analyze_file(file_path, file_path)
       IN  /\ metrics' = r.metrics
           /\ smells' = r.smells
           /\ spc' = IF r.raised THEN "raised" ELSE "analysed"
    /\ UNCHANGED <<risks, repoVars, cacheVars, astVars, runVars>>

NextFile == \E file_path \in DOMAIN tree : AnalyzeFile(file_path)

SpecFile == InitFile /\ [][NextFile]_vars

(***************************************************************************)
(* One analyzer on one file whose lines the pattern rules match: a .py     *)
(* file with or without a tail, or a file of one of the JavaScript and     *)
(* TypeScript names.                                                       *)
(***************************************************************************)
PyRuleLinesUpTo(n) == UNION {[1..k -> PyRuleKinds] : k \in 1..n}

JsRuleLinesUpTo(n) == UNION {[1..k -> JsRuleKinds] : k \in 1..n}

\* The names under which a file reaches JavaScriptAnalyzer.
JsPaths == {"c.js", "e.jsx", "f.ts", "g.tsx", "H.JS", "K.TS"}

RuleTreesUpTo(n) ==
    {[p \in {"b.py"} |-> Content(l, pad)] : l \in PyRuleLinesUpTo(n), pad \in PadValues}
    \cup UNION {{[p \in {q} |-> Content(l, 0)] : l \in JsRuleLinesUpTo(n)} : q \in JsPaths}

InitRules ==
    /\ tree \in RuleTreesUpTo(MaxRuleLines)
    /\ unreadable = {}
    /\ pending = 0
    /\ files = <<>>
    /\ returned = <<>>
    /\ clones = <<>>
    /\ temp_base = DefaultTempBase
    /\ metrics = <<>>
    /\ smells = <<>>
    /\ risks = <<>>
    /\ spc = "file"
    /\ CacheIdle
    /\ AstIdle
    /\ RunsIdle

SpecRules == InitRules /\ [][NextFile]_vars

(***************************************************************************)
(* performance_service.CacheService.  An entry is [value, expires_at]; its *)
(* created_at is never read.  A returned value is a list of at most one    *)
(* element, the empty list standing for None.                              *)
(***************************************************************************)
CacheKeys == {"k1", "k2"}

CacheValues == {"v1", "v2"}

\* The ttl argument of set; 0 stands for None and for 0, which
\* `ttl or self.ttl` both replace by self.ttl.
TtlArgs == 0..MaxTtl

Returned(op, key, value) == [op |-> op, key |-> key, value |-> value, raised |-> FALSE]

\* AttributeError: 'CacheService' object has no attribute ...
AttributeError(op, key) == [op |-> op, key |-> key, value |-> <<>>, raised |-> TRUE]

NoCall == Returned("none", "", <<>>)

\* CacheService(ttl_seconds)
InitCache ==
    /\ cache = <<>>
    /\ ttl \in 1..MaxTtl
    /\ now = 0
    /\ ret = NoCall
    /\ last_set = [k \in CacheKeys |-> <<>>]
    /\ invalidated = {}
    /\ ScoreIdle
    /\ RepoIdle
    /\ AstIdle
    /\ RunsIdle

\* del self.cache[key]
WithoutKey(key) == [k \in DOMAIN cache \ {key} |-> cache[k]]

CacheService_set(key, value, t) ==
    LET entry == [value |-> value, expires_at |-> now + (IF t = 0 THEN ttl ELSE t)]
    IN  /\ cache' = [k \in DOMAIN cache \cup {key} |-> IF k = key THEN entry ELSE cache[k]]
        /\ ret' = Returned("set", key, <<>>)
        /\ last_set' = [last_set EXCEPT ![key] = <<entry>>]
        /\ invalidated' = invalidated \ {key}
        /\ UNCHANGED <<ttl, now, scoreVars, repoVars, astVars, runVars>>

CacheService_get(key) ==
    /\ IF key \notin DOMAIN cache
       THEN /\ ret' = Returned("get", key, <<>>)
            /\ cache' = cache
       ELSE IF now > cache[key].expires_at
       THEN /\ ret' = Returned("get", key, <<>>)
            /\ cache' = WithoutKey(key)
       ELSE /\ ret' = Returned("get", key, <<cache[key].value>>)
            /\ cache' = cache
    /\ UNCHANGED <<ttl, now, last_set, invalidated, scoreVars, repoVars, astVars, runVars>>

CacheService_delete(key) ==
    /\ cache' = IF key \in DOMAIN cache THEN WithoutKey(key) ELSE cache
    /\ ret' = Returned("delete", key, <<>>)
    /\ last_set' = [last_set EXCEPT ![key] = <<>>]
    /\ UNCHANGED <<ttl, now, invalidated, scoreVars, repoVars, astVars, runVars>>

CacheService_clear ==
    /\ cache' = <<>>
    /\ ret' = Returned("clear", "", <<>>)
    /\ last_set' = [k \in CacheKeys |-> <<>>]
    /\ UNCHANGED <<ttl, now, invalidated, scoreVars, repoVars, astVars, runVars>>

\* CacheService defines get, set, delete and clear: the call
\* cache.invalidate(key) raises AttributeError and changes nothing.
CacheService_invalidate(key) ==
    /\ ret' = AttributeError("invalidate", key)
    /\ invalidated' = invalidated \cup {key}
    /\ UNCHANGED <<cache, ttl, now, last_set, scoreVars, repoVars, astVars, runVars>>

\* A second passes.
Tick ==
    /\ now < MaxClock
    /\ now' = now + 1
    /\ ret' = NoCall
    /\ UNCHANGED <<cache, ttl, last_set, invalidated, scoreVars, repoVars, astVars, runVars>>

NextCache ==
    \/ \E key \in CacheKeys, value \in CacheValues, t \in TtlArgs : CacheService_set(key, value, t)
    \/ \E key \in CacheKeys : CacheService_get(key)
    \/ \E key \in CacheKeys : CacheService_delete(key)
    \/ CacheService_clear
    \/ \E key \in CacheKeys : CacheService_invalidate(key)
    \/ Tick

SpecCache == InitCache /\ [][NextCache]_vars

(***************************************************************************)
(* Claims about the scorer, checked under SpecScore.                       *)
(***************************************************************************)
Scored == spc = "scored"

\* The RiskScore emitted for a path.
RiskFor(path) == CHOOSE r \in Range(risks) : r.path = path

FileSmells(path) == smells_by_file(smells, path)

CriticalCount(path) == Len(critical_smells(FileSmells(path)))

ScoreGap == RiskFor("b.py").risk_score - RiskFor("a.py").risk_score

\* C1: every RiskScore emitted by _calculate_risks has an integer risk_score
\* with 0 <= risk_score <= 100.
C1_ScoreInRange ==
    Scored => \A r \in Range(risks) : r.risk_score \in 0..100

\* A file whose bands sum to more than 100 has been scored.
C1_Witness ==
    /\ Scored
    /\ RawScore(metrics[2], FileSmells("b.py")) > 100
    /\ RiskFor("b.py").risk_score = 100

\* C2: the tier of every emitted RiskScore agrees with its emitted (clamped)
\* risk_score: Critical iff >= 70, High iff 50..69, Medium iff 30..49, Low
\* iff < 30, although the tier is computed before clamping.
C2_TierMatchesScore ==
    Scored => \A r \in Range(risks) :
        /\ r.tier = "Critical" <=> r.risk_score >= 70
        /\ r.tier = "High" <=> (r.risk_score >= 50 /\ r.risk_score < 70)
        /\ r.tier = "Medium" <=> (r.risk_score >= 30 /\ r.risk_score < 50)
        /\ r.tier = "Low" <=> r.risk_score < 30

\* A clamped score and a score exactly on a threshold have both been tiered.
C2_Witness ==
    /\ Scored
    /\ RawScore(metrics[2], FileSmells("b.py")) > 100
    /\ RiskFor("b.py").tier = "Critical"
    /\ RiskFor("a.py").risk_score = 70

\* b.py has exactly one finding more than a.py: a severity-5 finding of a
\* security type.
OneMoreSecuritySmell ==
    /\ Len(ExtraFindings) = 1
    /\ ExtraFindings[1].severity = 5
    /\ ExtraFindings[1].type \in security_smells

\* C3: adding one more severity-5 smell of a security type to a file's
\* findings never decreases the file's risk_score.
C3_SecuritySmellMonotone ==
    (Scored /\ OneMoreSecuritySmell) => ScoreGap >= 0

\* The smell is added to a file that already scores the top non-security
\* critical band.
C3_Witness ==
    /\ Scored
    /\ OneMoreSecuritySmell
    /\ high_risk_count(FileSmells("a.py")) >= 3
    /\ security_count(FileSmells("a.py")) = 0

\* Identical metrics, one critical smell against the same smell plus two more.
ThreeAgainstOneCritical ==
    /\ CriticalCount("a.py") = 1
    /\ CriticalCount("b.py") = 3

\* C4 as stated: two files with identical metrics, one with three critical
\* smells and one with one, differ in risk_score by at least 5 points.
C4_Original ==
    (Scored /\ ThreeAgainstOneCritical) => ScoreGap >= 5

\* The critical smells are weighed by type: the single one is not of a
\* security type, one of the two added ones is of a security or high-risk
\* type, and the lower score leaves room below the clamp.
C4_Weighed ==
    /\ security_count(FileSmells("a.py")) = 0
    /\ \E i \in 1..Len(ExtraFindings) :
          ExtraFindings[i].type \in security_smells \cup high_risk_smells
    /\ RiskFor("a.py").risk_score <= 95

\* C4 amended: ... differ by at least 5 points provided the single critical
\* smell is not of a security type, at least one of the two additional
\* critical smells is of a security or high-risk type, and the one-critical
\* file scores at most 95.
C4_CriticalGap ==
    (Scored /\ ThreeAgainstOneCritical /\ C4_Weighed) => ScoreGap >= 5

\* One high-risk critical smell against three of them.
C4_Witness ==
    /\ Scored
    /\ ThreeAgainstOneCritical
    /\ C4_Weighed
    /\ high_risk_count(FileSmells("a.py")) = 1
    /\ high_risk_count(FileSmells("b.py")) = 3

(***************************************************************************)
(* Claims about the bands of the scorer, checked under SpecBands.          *)
(***************************************************************************)
SeverityCount(fs, lo, hi) ==
    Cardinality({i \in 1..Len(fs) : fs[i].severity >= lo /\ fs[i].severity <= hi})

TypeCount(fs) == Cardinality({fs[i].type : i \in 1..Len(fs)})

\* The band contributions as the claim lists them, the critical-smell band
\* apart.
ComplexityPoints(m) ==
    IF m.cyclomatic_max > 25 THEN 25 ELSE IF m.cyclomatic_max > 15 THEN 20
    ELSE IF m.cyclomatic_max > 10 THEN 12 ELSE 0

NestingPoints(m) ==
    IF m.nesting_max > 7 THEN 15 ELSE IF m.nesting_max > 5 THEN 10
    ELSE IF m.nesting_max > 4 THEN 5 ELSE 0

FunctionCountPoints(m) == IF m.fn_count > 30 THEN 10 ELSE IF m.fn_count > 20 THEN 5 ELSE 0

DocumentationPoints(m) == IF m.sloc > 100 /\ m.comment_ratio < 20000 THEN 5 ELSE 0

MediumSmellPoints(fs) ==
    IF SeverityCount(fs, 3, 3) >= 5 THEN 10 ELSE IF SeverityCount(fs, 3, 3) >= 3 THEN 5 ELSE 0

FileSizePoints(m) == IF m.loc > 800 THEN 10 ELSE IF m.loc > 500 THEN 5 ELSE 0

LowSmellPoints(fs) == IF SeverityCount(fs, 0, 2) >= 8 THEN 5 ELSE 0

DiversityPoints(fs) == IF TypeCount(fs) >= 5 THEN 10 ELSE IF TypeCount(fs) >= 3 THEN 5 ELSE 0

OtherBandsSum(m, fs) ==
    ComplexityPoints(m) + NestingPoints(m) + FunctionCountPoints(m)
        + DocumentationPoints(m) + MediumSmellPoints(fs) + FileSizePoints(m)
        + LowSmellPoints(fs) + DiversityPoints(fs)

\* C18: the score before clamping is the sum of the band contributions,
\* each band counted once: complexity 25/20/12, the critical-smell band,
\* nesting 15/10/5, function count 10/5, documentation 5, medium smells
\* 10/5, file size 10/5, low smells 5, diversity 10/5; cyclomatic_max = 26
\* scores +25 with the tag extreme_complexity.
C18_BandArithmetic ==
    Scored => \A i \in 1..Len(metrics) :
        LET m == metrics[i]
            fs == FileSmells(m.path)
            sum == OtherBandsSum(m, fs) + CriticalBand(fs).score
        IN  /\ RawScore(m, fs) = sum
            /\ RiskFor(m.path).risk_score = Min(sum, 100)
            /\ m.cyclomatic_max = 26 =>
                  /\ ComplexityPoints(m) = 25
                  /\ RiskFor(m.path).top_features[1] = Tag("extreme_complexity")

\* cyclomatic_max is 26, and the medium and the low smell bands, which
\* leave no tag, both contribute.
C18_Witness ==
    /\ Scored
    /\ metrics[1].cyclomatic_max = 26
    /\ SeverityCount(smells, 3, 3) = 5
    /\ SeverityCount(smells, 0, 2) = 8
    /\ SeverityCount(smells, 4, 5) = 0
    /\ RiskFor("a.py").risk_score = 40
    /\ RiskFor("a.py").top_features = <<Tag("extreme_complexity")>>

SecurityIndexes(fs) ==
    {i \in 1..Len(fs) : fs[i].severity >= 4 /\ fs[i].type \in security_smells}

\* The points of the critical-smell band when the critical smells that
\* are not of a security type number n.
CriticalPoints(fs, n) ==
    IF SecurityIndexes(fs) # {} THEN 30
    ELSE IF n >= 3 THEN 25 ELSE IF n = 2 THEN 20 ELSE IF n = 1 THEN 15 ELSE 0

SecurityTagged(fs, r) ==
    SecurityIndexes(fs) # {} =>
        [name |-> "security_vulnerabilities", n |-> Cardinality(SecurityIndexes(fs))]
            \in Range(r.top_features)

\* C19 as stated: with a critical smell of a security type the band adds
\* +30 and the tag security_vulnerabilities_N; otherwise it adds +25, +20,
\* +15 or 0 by the number of critical smells, whatever their types.
C19_Original ==
    Scored => \A i \in 1..Len(metrics) :
        LET m == metrics[i]
            fs == FileSmells(m.path)
        IN  /\ RawScore(m, fs) - OtherBandsSum(m, fs) = CriticalPoints(fs, SeverityCount(fs, 4, 5))
            /\ SecurityTagged(fs, RiskFor(m.path))

HighRiskIndexes(fs) ==
    {i \in 1..Len(fs) : fs[i].severity >= 4 /\ fs[i].type \in high_risk_smells}

\* C19 amended: with no critical smell of a security type, the band counts
\* only the critical smells whose type is in the fixed high-risk type set:
\* +25 for at least 3 of them, +20 for 2, +15 for 1, 0 for none; critical
\* smells of any other type add nothing to this band.
C19_CriticalBandByType ==
    Scored => \A i \in 1..Len(metrics) :
        LET m == metrics[i]
            fs == FileSmells(m.path)
        IN  /\ RawScore(m, fs) - OtherBandsSum(m, fs)
                    = CriticalPoints(fs, Cardinality(HighRiskIndexes(fs)))
            /\ SecurityTagged(fs, RiskFor(m.path))

\* One critical smell of a high-risk type beside one of another type.
C19_Witness ==
    /\ Scored
    /\ SecurityIndexes(smells) = {}
    /\ Cardinality(HighRiskIndexes(smells)) = 1
    /\ SeverityCount(smells, 4, 5) = 2
    /\ RawScore(metrics[1], smells) - OtherBandsSum(metrics[1], smells) = 15

\* The feature tags in the order the scorer reaches them.
TagNames ==
    << "extreme_complexity", "high_complexity", "moderate_complexity",
       "security_vulnerabilities", "multiple_critical_issues", "critical_issues",
       "has_critical_issue", "deep_nesting", "nesting_depth", "too_many_functions",
       "poor_documentation", "very_large_file", "multiple_issue_types" >>

\* The band under a tag contributed to the score of the file.
TagEarned(name, m, fs) ==
    LET critical == CriticalPoints(fs, Cardinality(HighRiskIndexes(fs)))
    IN  CASE name = "extreme_complexity" -> ComplexityPoints(m) = 25
          [] name = "high_complexity" -> ComplexityPoints(m) = 20
          [] name = "moderate_complexity" -> ComplexityPoints(m) = 12
          [] name = "security_vulnerabilities" -> critical = 30
          [] name = "multiple_critical_issues" -> critical = 25
          [] name = "critical_issues" -> critical = 20
          [] name = "has_critical_issue" -> critical = 15
          [] name = "deep_nesting" -> NestingPoints(m) = 15
          [] name = "nesting_depth" -> NestingPoints(m) = 10
          [] name = "too_many_functions" -> FunctionCountPoints(m) = 10
          [] name = "poor_documentation" -> DocumentationPoints(m) = 5
          [] name = "very_large_file" -> FileSizePoints(m) = 10
          [] name = "multiple_issue_types" -> DiversityPoints(fs) = 10

AccruedTags(m, fs) ==
    LET earned == SelectSeq(TagNames, LAMBDA name : TagEarned(name, m, fs))
    IN  [i \in 1..Len(earned) |->
            [ name |-> earned[i],
              n |-> IF earned[i] = "security_vulnerabilities"
                    THEN Cardinality(SecurityIndexes(fs)) ELSE 0 ]]

\* C20: top_features has at most 4 entries and is exactly the first (up to
\* 4) feature tags in the order complexity, critical smells, nesting,
\* function count, documentation, file size, diversity; the tags are not
\* re-sorted and no tag appears whose band did not contribute.
C20_TopFeatures ==
    Scored => \A i \in 1..Len(metrics) :
        LET m == metrics[i]
            fs == FileSmells(m.path)
            accrued == AccruedTags(m, fs)
        IN  /\ Len(RiskFor(m.path).top_features) <= 4
            /\ RiskFor(m.path).top_features = SubSeq(accrued, 1, Min(4, Len(accrued)))

\* Seven bands left a tag and the last three were cut off.
C20_Witness ==
    /\ Scored
    /\ Len(AccruedTags(metrics[1], smells)) = 7
    /\ Len(RiskFor("a.py").top_features) = 4
    /\ RiskFor("a.py").top_features[2].n = 2
    /\ RiskFor("a.py").top_features[4].name = "too_many_functions"

(***************************************************************************)
(* Claims about the analyzers and the orchestrator, checked under Spec     *)
(* (one invocation) and SpecTwice (two invocations on one tree).           *)
(***************************************************************************)
\* The call has returned its dict with a summary (the clone succeeded).
Succeeded(r) == "summary" \in DOMAIN r

FirstRunSucceeded == returned # <<>> /\ Succeeded(returned[1])

\* The entries of a result list that carry a path.
EntriesFor(list, p) == SelectSeq(list, LAMBDA e : e.path = p)

\* A discovered .py file that can be read and holds the line
\* password = "supersecret123".
PyFileWithSecret(p) ==
    /\ p \in Range(files)
    /\ Suffix(p) = ".py"
    /\ p \notin unreadable
    /\ FirstIndex(tree[p].lines, "secret") > 0

HasSecretSmell(r, p) ==
    \E s \in Range(r.smells) :
        s.path = p /\ s.type = "Hardcoded Secret" /\ s.severity = 5

TierIn(r, p, tiers) == \E k \in Range(r.risks) : k.path = p /\ k.tier \in tiers

C6_Original ==
    (Len(returned) = 2 /\ Succeeded(returned[1]) /\ Succeeded(returned[2]))
        => returned[1] = returned[2]

\* C7: the returned risks are sorted by risk_score descending, and entries
\* of equal risk_score are in path order, whatever the discovery order.
C7_Original ==
    FirstRunSucceeded =>
        \A i, j \in 1..Len(returned[1].risks) :
            i < j =>
                \/ returned[1].risks[i].risk_score > returned[1].risks[j].risk_score
                \/ /\ returned[1].risks[i].risk_score = returned[1].risks[j].risk_score
                   /\ PathRank(returned[1].risks[i].path) <= PathRank(returned[1].risks[j].path)

OrderedByPath(list) ==
    \A i, j \in 1..Len(list) : i < j => PathRank(list[i].path) <= PathRank(list[j].path)

\* C8: the returned metrics list and smells list are each ordered by file
\* path, whatever the discovery order.
C8_Original ==
    FirstRunSucceeded =>
        /\ OrderedByPath(returned[1].metrics)
        /\ OrderedByPath(returned[1].smells)

\* C9: when analysing a discovered file raises, the invocation still returns
\* its result; that file has no FileMetrics, CodeSmell or RiskScore in it,
\* and every other discovered file has its FileMetrics and RiskScore.
C9_FailureIsolation ==
    \A n \in 1..Len(returned) :
        /\ "exception" \notin DOMAIN returned[n]
        /\ Succeeded(returned[n]) => \A p \in Range(files) :
              IF p \in unreadable
              THEN /\ EntriesFor(returned[n].metrics, p) = <<>>
                   /\ EntriesFor(returned[n].smells, p) = <<>>
                   /\ EntriesFor(returned[n].risks, p) = <<>>
              ELSE /\ Len(EntriesFor(returned[n].metrics, p)) = 1
                   /\ Len(EntriesFor(returned[n].risks, p)) = 1

\* The file that raises is discovered between two files that are analysed.
C9_Witness ==
    /\ FirstRunSucceeded
    /\ Len(files) = 3
    /\ files[2] \in unreadable
    /\ files[1] \notin unreadable
    /\ files[3] \notin unreadable

\* A discovered .py file that can be read and does not parse.
PyFileUnparsed(p) ==
    /\ p \in Range(files)
    /\ Suffix(p) = ".py"
    /\ p \notin unreadable
    /\ PySyntaxError(tree[p])

\* C10: a Python file that cannot be parsed still yields a FileMetrics with
\* cyclomatic_max = 1, nesting_max = 0, fn_count = 0, class_count = 0 and
\* its real loc and sloc, and no smell; the files after it are analysed.
C10_ParseFailureDegrades ==
    FirstRunSucceeded => \A p \in DOMAIN tree :
        PyFileUnparsed(p) =>
            /\ Len(EntriesFor(returned[1].metrics, p)) = 1
            /\ \A m \in Range(EntriesFor(returned[1].metrics, p)) :
                  /\ m.cyclomatic_max = 1
                  /\ m.nesting_max = 0
                  /\ m.fn_count = 0
                  /\ m.class_count = 0
                  /\ m.loc = Len(tree[p].lines) + tree[p].pad
                  /\ m.sloc = m.loc - Cardinality({i \in 1..Len(tree[p].lines) :
                                                      tree[p].lines[i] = "comment"})
            /\ EntriesFor(returned[1].smells, p) = <<>>
            /\ \A q \in Range(files) :
                  q \notin unreadable => EntriesFor(returned[1].metrics, q) # <<>>

\* The unparsed file holds a function definition, which a parsed file would
\* count, and is discovered before another file.
C10_Witness ==
    /\ FirstRunSucceeded
    /\ Len(files) >= 2
    /\ PyFileUnparsed(files[1])
    /\ tree[files[1]].lines = <<"def", "bad">>
    /\ files[2] \notin unreadable

\* The call has returned the error object and nothing else.
ReportsCloneFailure(r) ==
    /\ "exception" \notin DOMAIN r
    /\ "error" \in DOMAIN r
    /\ r.metrics = <<>>
    /\ r.risks = <<>>
    /\ r.smells = <<>>

\* C11: whenever the clone step fails (non-zero git exit, timeout, git not
\* installed, any other exception), analyze_github_repo raises nothing and
\* returns one object with an error field and empty metrics, risks and
\* smells lists, and no file is analysed.
C11_CloneFailureReported ==
    \A n \in 1..Len(returned) :
        clones[n] # "cloned" =>
            /\ ReportsCloneFailure(returned[n])
            /\ n = Len(returned) => files = <<>>

\* git clone raised an exception that has no except clause of its own, for
\* a repository that holds a file the analyzers would take.
C11_Witness ==
    /\ Len(returned) = 1
    /\ clones[1] = "Exception"
    /\ "a.py" \in DOMAIN tree
    /\ ReportsCloneFailure(returned[1])

\* C12: on every successful run the result has the fields metrics, smells,
\* risks and summary; total_files is the number of metrics entries,
\* total_loc the sum of their loc, total_smells the number of smells
\* entries, languages exactly the set of languages in metrics, and risks has
\* exactly one entry per metrics entry, with the same path.
C12_SummaryConsistent ==
    \A n \in 1..Len(returned) :
        Succeeded(returned[n]) =>
            LET r == returned[n]
            IN  /\ DOMAIN r = {"metrics", "smells", "risks", "summary"}
                /\ r.summary.total_files = Len(r.metrics)
                /\ r.summary.total_loc = SumLoc(r.metrics)
                /\ r.summary.total_smells = Len(r.smells)
                /\ Range(r.summary.languages) = {m.language : m \in Range(r.metrics)}
                /\ Len(r.summary.languages) = Cardinality(Range(r.summary.languages))
                /\ Len(r.risks) = Len(r.metrics)
                /\ \A i \in 1..Len(r.metrics) :
                      Len(EntriesFor(r.risks, r.metrics[i].path)) = 1

\* Files of two languages were analysed, one of them has a smell and one
\* has none, and a discovered file was dropped as unreadable.
C12_Witness ==
    /\ FirstRunSucceeded
    /\ Cardinality(Range(returned[1].summary.languages)) = 2
    /\ returned[1].summary.total_smells = 1
    /\ returned[1].summary.total_files = 2
    /\ Len(files) = 3
    /\ returned[1].summary.total_loc > 2

\* C17: the FileMetrics, the CodeSmell findings and the RiskScore produced
\* for a file are those produced when the file is the only one analysed:
\* they depend on its content and relative path only, whatever other files
\* the repository holds and in whatever order they are discovered.
C17_PerFileIndependence ==
    \A n \in 1..Len(returned) :
        Succeeded(returned[n]) => \A p \in Range(files) :
            LET alone == AnalyzeFiles(<<p>>)
            IN  /\ EntriesFor(returned[n].metrics, p) = alone.all_metrics
                /\ EntriesFor(returned[n].smells, p) = alone.all_smells
                /\ EntriesFor(returned[n].risks, p)
                        = calculate_risks(alone.all_metrics, alone.all_smells)

\* A file without a smell is analysed after a file that has one and after a
\* file of the other language.
C17_Witness ==
    /\ FirstRunSucceeded
    /\ files = <<"b.py", "c.js", "a.py">>
    /\ unreadable = {}
    /\ HasSecretSmell(returned[1], "b.py")
    /\ EntriesFor(returned[1].smells, "a.py") = <<>>
    /\ Len(EntriesFor(returned[1].risks, "a.py")) = 1

\* Path(p).parts[:-1]: the directories of a repository-relative path
DirectoryParts(p) == SubSeq(Parts(p), 1, Len(Parts(p)) - 1)

\* C15: a file under the repository root is analysed if and only if its
\* extension is one of .py, .js, .jsx, .ts, .tsx and no directory component
\* of its repository-relative path is in the ignore set; where the
\* repository root stands on disk never makes a file skipped.
C15_Original ==
    FirstRunSucceeded => \A p \in DOMAIN tree :
        p \in Range(files) <=>
            /\ Suffix(p) \in {".py", ".js", ".jsx", ".ts", ".tsx"}
            /\ \A i \in 1..Len(DirectoryParts(p)) : DirectoryParts(p)[i] \notin IGNORED_DIRS

(***************************************************************************)
(* Claims about one analyzer on one file, checked under SpecFile.          *)
(***************************************************************************)
FileAnalysed == spc = "analysed"

\* C13: every FileMetrics record produced by either analyzer, the
\* parse-failure path included, has cyclomatic_max >= 1 and
\* cyclomatic_avg >= 1 (100 hundredths).
C13_Original ==
    FileAnalysed => \A m \in Range(metrics) :
        /\ m.cyclomatic_max >= 1
        /\ m.cyclomatic_avg >= 100

\* Callbacks open after the first n lines, each closing line closing one.
RECURSIVE OpenCallbacks(_, _)
OpenCallbacks(lines, n) ==
    IF n = 0 THEN 0
    ELSE IF lines[n] = "open" THEN OpenCallbacks(lines, n - 1) + 1
    ELSE IF lines[n] = "close" /\ OpenCallbacks(lines, n - 1) > 0
         THEN OpenCallbacks(lines, n - 1) - 1
    ELSE OpenCallbacks(lines, n - 1)

\* C14: for any JavaScript file in which callbacks are nested 5 levels deep
\* at some point, whatever sibling callbacks were opened and closed before,
\* JavaScriptAnalyzer emits a 'Callback Hell' smell.
C14_Original ==
    (FileAnalysed /\ "c.js" \in DOMAIN tree /\ "c.js" \notin unreadable) =>
        ((\E n \in 1..Len(tree["c.js"].lines) : OpenCallbacks(tree["c.js"].lines, n) >= 5)
            => \E s \in Range(smells) : s.type = "Callback Hell")

(***************************************************************************)
(* Claims about CacheService, checked under SpecCache.                     *)
(***************************************************************************)
\* C16: get(key) returns the value most recently stored with set(key,
\* value, ttl) while that entry has not expired, and returns None once
\* invalidate(key) has been called on the key after its last set.
C16_Original ==
    ret.op = "get" =>
        IF ret.key \in invalidated
        THEN ret.value = <<>>
        ELSE (last_set[ret.key] # <<>> /\ now <= last_set[ret.key][1].expires_at)
                => ret.value = <<last_set[ret.key][1].value>>

(***************************************************************************)
(* Claims about the syntax-tree visitors                                   *)
(***************************************************************************)
Greatest(S) == CHOOSE m \in S : \A n \in S : n <= m

\* The node kinds the claim lists as adding one each.
DecisionKinds ==
    {"If", "For", "While", "ExceptHandler", "With", "Assert", "comprehension", "IfExp"}

\* n - 1 for every boolean chain of n operands among the nodes.
RECURSIVE BoolOpOperators(_, _)
BoolOpOperators(t, nodes) ==
    IF nodes = {} THEN 0
    ELSE LET i == CHOOSE n \in nodes : TRUE
         IN  (IF t[i].kind = "BoolOp" THEN t[i].values - 1 ELSE 0)
               + BoolOpOperators(t, nodes \ {i})

DecisionPoints(t, nodes) ==
    Cardinality({i \in nodes : t[i].kind \in DecisionKinds}) + BoolOpOperators(t, nodes)

WalkDone == walker.stack = <<>> /\ walker.visited # <<>>

\* C21: the complexity of a CyclomaticComplexityVisitor is 1 plus one for
\* every if/elif, for, while, except handler, with, assert, comprehension
\* clause and conditional expression, plus n - 1 for every boolean chain
\* of n operands; no node is visited twice, and when the walk is over every
\* node of the tree has been visited, in document order.
C21_ComplexityCount ==
    walker.visitor = "complexity" =>
        /\ Cardinality(Range(walker.visited)) = Len(walker.visited)
        /\ walker.complexity = 1 + DecisionPoints(ast, Range(walker.visited))
        /\ WalkDone => walker.visited = [i \in 1..Len(ast) |-> i]

\* A function with an if whose test is a chain of three operands has been
\* walked: 1 + 1 + 2.
C21_Witness ==
    /\ walker.visitor = "complexity"
    /\ WalkDone
    /\ Len(ast) = 3
    /\ ast[2].kind = "If" /\ ast[3].kind = "BoolOp" /\ ast[3].values = 3
    /\ walker.complexity = 4

\* The node kinds the claim lists as tracked by the depth counter.
DepthKinds == {"If", "For", "While", "With", "Try", "FunctionDef", "AsyncFunctionDef"}

\* The number of tracked nodes among node i and the nodes above it.
TrackedDepth(t, i) == Cardinality({j \in AncestorsOrSelf(t, i) : t[j].kind \in DepthKinds})

\* C22: the depth counter of a NestingVisitor is never negative, equals the
\* number of tracked nodes (if, for, while, with, try, function definition)
\* the walk is inside of, is back at 0 when the walk is over, and max_depth
\* is the greatest value current_depth has taken.
C22_DepthCounter ==
    walker.visitor = "nesting" =>
        /\ walker.current_depth >= 0
        /\ walker.current_depth =
              Cardinality({i \in Range(walker.stack) : ast[i].kind \in DepthKinds})
        /\ walker.stack = <<>> => walker.current_depth = 0
        /\ walker.max_depth =
              Greatest({0} \cup {TrackedDepth(ast, i) : i \in Range(walker.visited)})

\* A module with a loop inside a function has been walked.
C22_Witness ==
    /\ walker.visitor = "nesting"
    /\ WalkDone
    /\ Len(ast) = 3
    /\ ast[2].kind = "FunctionDef" /\ ast[3].kind = "For" /\ ast[3].parent = 2
    /\ walker.max_depth = 2
    /\ walker.current_depth = 0

\* The blocks node i lies in as the text shows them: an elif stands at the
\* level of the if it continues.
LexicalDepth(t, i) ==
    Cardinality({j \in AncestorsOrSelf(t, i) : t[j].kind \in DepthKinds /\ ~t[j].elif})

\* C23: the nesting depth found for a module is the greatest number of
\* blocks nested in one another in its text; an if/elif chain counts as
\* one block, as a single if does.
C23_Original ==
    (walker.visitor = "nesting" /\ WalkDone) =>
        walker.max_depth = Greatest({LexicalDepth(ast, i) : i \in 1..Len(ast)})

(***************************************************************************)
(* Overlapping invocations of analyze_github_repo on the module-level      *)
(* repo_analyzer, each in a thread of its own.  self.temp_dir is a field   *)
(* of the one object; every read and write of it is a step, and the steps  *)
(* of the invocations interleave as the threads are scheduled.             *)
(***************************************************************************)
Invocations == 1..MaxOverlap

\* temp_base / f"codesensex_{os.urandom(8).hex()}": a fresh name each time
TempDirNames == <<"codesensex_1a", "codesensex_2b", "codesensex_3c", "codesensex_4d">>

NewTempDir(i) == TempDirNames[i]

\* An invocation that has been called and has not run a statement yet.
Called ==
    [ pc |-> "assign", own |-> "None", cloned_into |-> "None", found_in |-> "None",
      relative_to |-> "None", removed |-> "None", result |-> "none" ]

\* self.temp_dir = temp_base / f"codesensex_{...}"
AssignTempDir(i) ==
    /\ runs[i].pc = "assign"
    /\ temp_dir' = NewTempDir(i)
    /\ runs' = [runs EXCEPT ![i].own = NewTempDir(i), ![i].pc = "clone"]
    /\ UNCHANGED <<disk, scoreVars, repoVars, cacheVars, astVars>>

\* clone_success = await self._clone_repo(github_url): git clone into
\* str(self.temp_dir), which fails when the directory is there already and
\* may fail for reasons of its own.
CloneRepo(i) ==
    /\ runs[i].pc = "clone"
    /\ \E clone_success \in BOOLEAN :
          /\ clone_success => temp_dir \notin disk
          /\ disk' = IF clone_success THEN disk \cup {temp_dir} ELSE disk
          /\ runs' = [runs EXCEPT ![i].cloned_into = temp_dir,
                                  ![i].pc = IF clone_success THEN "find" ELSE "finally",
                                  ![i].result = IF clone_success THEN "none" ELSE "error"]
    /\ UNCHANGED <<temp_dir, scoreVars, repoVars, cacheVars, astVars>>

\* self._find_files(): self.temp_dir.rglob('*'), which yields nothing for a
\* directory that is not there
FindFiles(i) ==
    /\ runs[i].pc = "find"
    /\ runs' = [runs EXCEPT ![i].found_in = temp_dir,
                            ![i].pc = IF temp_dir \in disk THEN "relative" ELSE "finally",
                            ![i].result = IF temp_dir \in disk THEN "none" ELSE "dict"]
    /\ UNCHANGED <<temp_dir, disk, scoreVars, repoVars, cacheVars, astVars>>

\* relative_path = str(file_path.relative_to(self.temp_dir)), which raises
\* ValueError for a file of another directory
RelativeTo(i) ==
    /\ runs[i].pc = "relative"
    /\ runs' = [runs EXCEPT ![i].relative_to = temp_dir,
                            ![i].pc = "finally",
                            ![i].result = IF temp_dir = runs[i].found_in
                                          THEN "dict" ELSE "ValueError"]
    /\ UNCHANGED <<temp_dir, disk, scoreVars, repoVars, cacheVars, astVars>>

\* finally: if self.temp_dir and self.temp_dir.exists(): shutil.rmtree(self.temp_dir)
Cleanup(i) ==
    /\ runs[i].pc = "finally"
    /\ disk' = disk \ {temp_dir}
    /\ runs' = [runs EXCEPT ![i].removed = IF temp_dir \in disk THEN temp_dir ELSE "None",
                            ![i].pc = "done"]
    /\ UNCHANGED <<temp_dir, scoreVars, repoVars, cacheVars, astVars>>

\* repo_analyzer = RepoAnalyzer(), and the invocations called on it
InitRuns ==
    /\ temp_dir = "None"
    /\ runs = [i \in Invocations |-> Called]
    /\ disk = {}
    /\ ScoreIdle
    /\ RepoIdle
    /\ CacheIdle
    /\ AstIdle

NextRuns ==
    \E i \in Invocations :
        \/ AssignTempDir(i)
        \/ CloneRepo(i)
        \/ FindFiles(i)
        \/ RelativeTo(i)
        \/ Cleanup(i)

SpecRuns == InitRuns /\ [][NextRuns]_vars

(***************************************************************************)
(* Claims about the pattern rules                                          *)
(***************************************************************************)
\* The one file of the tree, once an analyzer has returned its records.
TheFile == CHOOSE p \in DOMAIN tree : TRUE

SmellsOfType(type) == SelectSeq(smells, LAMBDA s : s.type = type)

SmellLines(type) == {s.line : s \in Range(SmellsOfType(type))}

\* The smell types the claim names among the rules of the model.
PatternTypes ==
    {"Hardcoded Secret", "Code Injection Risk", "N+1 Query Problem", "XSS Vulnerability"}

\* The loop headers followed by a query line: the matches of the N+1 pattern.
QueryLoops(lines) == {i \in 1..(Len(lines) - 1) : lines[i] = "for" /\ lines[i + 1] = "query"}

\* A .py file that parses has been analysed.
PyFileParsed ==
    /\ FileAnalysed
    /\ Suffix(TheFile) = ".py"
    /\ ~PySyntaxError(tree[TheFile])

JsFileAnalysed == FileAnalysed /\ Suffix(TheFile) # ".py"

\* C24: the smell list of a file holds at most one CodeSmell of each
\* pattern-based type, located at the first match.
C24_Original ==
    FileAnalysed => \A type \in PatternTypes : Len(SmellsOfType(type)) <= 1

\* C24 amended: Hardcoded Secret and Code Injection Risk are reported at
\* most once per file, at the first matching line; N+1 Query Problem is
\* reported once for every match, at the line of its loop header; XSS
\* Vulnerability is reported for the first two matches of a pattern.
C24_OncePerSecurityFamily ==
    /\ PyFileParsed =>
          LET lines == tree[TheFile].lines
          IN  /\ Len(SmellsOfType("Hardcoded Secret")) <= 1
              /\ SmellLines("Hardcoded Secret") \subseteq {FirstIndex(lines, "secret")}
              /\ Len(SmellsOfType("Code Injection Risk")) <= 1
              /\ SmellLines("Code Injection Risk") \subseteq {FirstIndex(lines, "eval")}
              /\ Len(SmellsOfType("N+1 Query Problem")) = Cardinality(QueryLoops(lines))
              /\ SmellLines("N+1 Query Problem") = QueryLoops(lines)
    /\ JsFileAnalysed =>
          LET matches == IndicesOf(tree[TheFile].lines, "innerHTML")
          IN  /\ Len(SmellsOfType("XSS Vulnerability")) = Min(2, Len(matches))
              /\ SmellLines("XSS Vulnerability") = Range(Take(matches, 2))

\* A file with two loops over a query has been analysed: two findings.
C24_Witness ==
    /\ PyFileParsed
    /\ tree[TheFile].lines = <<"for", "query", "for", "query">>
    /\ SmellLines("N+1 Query Problem") = {1, 3}

\* The types of the security-pattern scans.
SecurityPatternTypes ==
    {"SQL Injection Risk", "Hardcoded Secret", "Database Credentials Exposed",
     "API Key Exposed", "AWS Credentials Exposed", "Private Key Exposed",
     "JWT Token Hardcoded", "Code Injection Risk"}

\* C25: a file of more than 5,000 lines has no security-pattern finding,
\* command and code injection included; on a file of at most 5,000 lines
\* every security-pattern scan runs.
C25_Original ==
    PyFileParsed =>
        LET c == tree[TheFile]
        IN  IF LocOf(c) > SecurityScanLimit
            THEN \A s \in Range(smells) : s.type \notin SecurityPatternTypes
            ELSE /\ FirstIndex(c.lines, "secret") > 0 => SmellsOfType("Hardcoded Secret") # <<>>
                 /\ FirstIndex(c.lines, "eval") > 0 => SmellsOfType("Code Injection Risk") # <<>>

\* C26: every CodeSmell has a line number within its file, 1 <= line <=
\* loc; no rule stores a character offset or 0.
C26_Original ==
    FileAnalysed => \A s \in Range(smells) : \A m \in Range(metrics) :
        1 <= s.line /\ s.line <= m.loc

\* C27: a Python file that does not parse is still scanned by the pattern
\* rules: with a hardcoded secret in it, it yields the Hardcoded Secret
\* CodeSmell.
C27_Original ==
    (/\ FileAnalysed
     /\ Suffix(TheFile) = ".py"
     /\ TheFile \notin unreadable
     /\ PySyntaxError(tree[TheFile])
     /\ LocOf(tree[TheFile]) <= SecurityScanLimit
     /\ FirstIndex(tree[TheFile].lines, "secret") > 0) =>
        \E s \in Range(smells) : s.type = "Hardcoded Secret" /\ s.severity = 5

\* The language the claim gives an extension.
LanguageOfExtension(ext) ==
    IF ext = ".py" THEN "python"
    ELSE IF ext \in {".js", ".jsx"} THEN "javascript"
    ELSE "typescript"

\* C30: the language of a FileMetrics is the one of the file's extension,
\* compared without regard to case (python .py, javascript .js and .jsx,
\* typescript .ts and .tsx), and the 'Excessive Any Types' rule is applied
\* to exactly the files labelled typescript.
C30_Original ==
    FileAnalysed => \A m \in Range(metrics) :
        /\ m.language = LanguageOfExtension(Suffix(TheFile))
        /\ (6 * CountIf(tree[TheFile].lines, LAMBDA k : k = "anys") > 5) =>
              (m.language = "typescript" <=> SmellsOfType("Excessive Any Types") # <<>>)

(***************************************************************************)
(* Claims about a degraded run                                             *)
(***************************************************************************)
\* The summaries of the runs over the same repository without the files
\* that cannot be read.
CleanSummaries ==
    UNION {
        LET acc == AnalyzeFiles(find_files(walk))
        IN  {Outcome(acc, languages).summary :
                languages \in Orderings(LanguagesOf(acc.all_metrics))} :
        walk \in Orderings(DOMAIN tree \ unreadable)}

\* C28: a run in which a file was skipped because its analysis failed
\* returns a summary that differs from the summary of a run over the same
\* repository without that file.
C28_Original ==
    (FirstRunSucceeded /\ Range(files) \cap unreadable # {}) =>
        returned[1].summary \notin CleanSummaries

(***************************************************************************)
(* Claims about overlapping invocations                                    *)
(***************************************************************************)
\* C29: invocations of analyze_github_repo that overlap are isolated: each
\* discovers files in, computes relative paths against, and deletes in its
\* finally block only the temporary directory it created itself.
C29_Original ==
    \A i \in DOMAIN runs :
        /\ runs[i].found_in \in {"None", runs[i].own}
        /\ runs[i].relative_to \in {"None", runs[i].own}
        /\ runs[i].removed \in {"None", runs[i].own}

====
